---- MODULE Spec2Model ----
(***************************************************************************)
(* A model of c-safeinput 1.1.0 (src/src/safeinput.c): the bounded line    *)
(* reader si_readByte / si_drainStdin and the typed accessors built on it. *)
(*                                                                         *)
(* stdin is an input of the program.  It is modelled as the stream state   *)
(* getchar_unlocked() observes: the bytes taken so far from the physical   *)
(* line the stream is in, the number of terminators consumed, and the      *)
(* end-of-stream indicator.  The byte a getchar_unlocked() call delivers   *)
(* is chosen among the bytes that keep the current line inside the set of  *)
(* lines under test (LinePrefix), a terminator, or end-of-stream.          *)
(*                                                                         *)
(* Integers wider than 31 bits are kept as a sign and a sequence of        *)
(* decimal digits (most significant first, no leading zero, <<>> is 0).    *)
(***************************************************************************)
EXTENDS Integers, Sequences, FiniteSets, TLC

\* ------------------------------------------------------------------ bounds

\* Lines of at most MaxShort bytes are built from every byte of Alphabet.
MaxShort == 2
\* The stream holds at most MaxLines line terminators.
MaxLines == 2
\* si_readByte is also called directly with every capacity 0..MaxCap.
MaxCap == 2

\* ------------------------------------------------- constants of the program

INPUT_BUFFER_SIZE == 128
CHAR_INPUT_BUFFER_SIZE == 4
EOF == -1
NL == 10
\* si_readByte's return values
RB_OK == 0
RB_ERR == 1

\* <limits.h> of the LP64 build the Makefile produces (gcc, long = 64 bits)
INT_MAX_MAG == <<2,1,4,7,4,8,3,6,4,7>>
INT_MIN_MAG == <<2,1,4,7,4,8,3,6,4,8>>
UINT_MAX_MAG == <<4,2,9,4,9,6,7,2,9,5>>
LONG_MAX_MAG == <<9,2,2,3,3,7,2,0,3,6,8,5,4,7,7,5,8,0,7>>
LONG_MIN_MAG == <<9,2,2,3,3,7,2,0,3,6,8,5,4,7,7,5,8,0,8>>
ULONG_MAX_MAG == <<1,8,4,4,6,7,4,4,0,7,3,7,0,9,5,5,1,6,1,5>>
\* ULONG_MAX + 1 - UINT_MAX - 1: a wrapped -m exceeds UINT_MAX iff m <= this
WRAP_ABOVE_UINT_MAG == <<1,8,4,4,6,7,4,4,0,6,9,4,1,4,5,8,4,3,2,0>>
\* FLT_MAX = 340282346638528859811704183484516925440
FLT_MAX_MAG == <<3,4,0,2,8,2,3,4,6,6,3,8,5,2,8,8,5,9,8,1,1,7,0,4,1,8,3,4,8,4,5,1,6,9,2,5,4,4,0>>

\* Diagnostics written to stderr
MSG_OVERRUN == "Input exceeding buffer size. Try again.\n"
MSG_INVALID == "Invalid input. Try again.\n"
MSG_NEGATIVE == "Value can not be negative.\n"
MSG_SINGLE == "Invalid input. Please enter a single character.\n"
MSG_ALLOWED == "Invalid input. Allowed: %s\n"
MSG_NULL_ALLOWED == "ERROR: NULL passed to 'allowed'.\n"
MSG_NO_ALLOWED == "No allowed characters specified. Exiting.\n"
MSG_MALLOC == "Memory allocation failed.\n"
MSG_BOOL_EOF == "EOF detected. Returning false by default.\n"
MSG_BOOL == "Invalid input. Enter 'y' or 'n'.\n"

\* ------------------------------------------------------------ input domain

\* Bytes every short line is built from: NUL, ' ', '-', '1', 'a', 0xFF
Alphabet == {0, 32, 45, 49, 97, 255}
\* Long lines are runs of the digit '1', up to two bytes past the line buffer
Fill == 48 + 1
MaxLong == INPUT_BUFFER_SIZE + 2

Dec(ds) == [k \in 1..Len(ds) |-> 48 + ds[k]]

\* Further lines under test (and every prefix of them)
Literals ==
  { Dec(INT_MAX_MAG), Dec(INT_MIN_MAG), Dec(INT_MAX_MAG) \o <<48>>,
    <<45>> \o Dec(INT_MIN_MAG), <<45>> \o Dec(<<2,1,4,7,4,8,3,6,4,9>>),
    Dec(UINT_MAX_MAG), Dec(<<4,2,9,4,9,6,7,2,9,6>>),
    Dec(LONG_MAX_MAG), Dec(LONG_MIN_MAG), <<45>> \o Dec(LONG_MIN_MAG),
    <<45>> \o Dec(<<9,2,2,3,3,7,2,0,3,6,8,5,4,7,7,5,8,0,9>>),
    Dec(ULONG_MAX_MAG), Dec(<<1,8,4,4,6,7,4,4,0,7,3,7,0,9,5,5,1,6,1,6>>),
    <<45, 53>>,                    \* "-5"
    <<43, 49>>,                    \* "+1"
    <<49, 50, 51, 97, 98, 99>>,    \* "123abc"
    <<49, 50, 0, 97>>,             \* '1','2',0x00,'a'
    <<121>>, <<89>>, <<110>>, <<78>>,  \* "y" "Y" "n" "N"
    <<120>> }                      \* "x"

Bytes == Alphabet \cup {Fill} \cup UNION { {t[k] : k \in 1..Len(t)} : t \in Literals }

LinePrefix(l) ==
  \/ Len(l) <= MaxShort /\ \A k \in 1..Len(l) : l[k] \in Alphabet
  \/ Len(l) <= MaxLong /\ \A k \in 1..Len(l) : l[k] = Fill
  \/ \E t \in Literals : Len(l) <= Len(t) /\ SubSeq(t, 1, Len(l)) = l

\* ------------------------------------------------------------------- state

VARIABLES
  line,      \* stdin: the bytes delivered so far of the current physical line
  nlines,    \* stdin: number of line terminators delivered
  eof,       \* stdin: end-of-stream has been delivered
  pc,        \* control point of the call in progress
  top,       \* the function the caller called
  fn,        \* the function whose frame is executing
  allowed,   \* si_getCharFiltered's argument
  buffer,    \* the bytes written into the staging buffer, from index 0
  maxLen,    \* si_readByte's maxLen
  i,         \* si_readByte's i
  c,         \* si_readByte's c
  len,       \* the caller's len (*outLen)
  result,    \* si_readByte's return value
  cval,      \* si_getBool's c
  ret,       \* the value returned to the caller
  stderr,    \* diagnostics written since the caller's call began
  consumed,  \* what getchar_unlocked() delivered to the current si_readByte call
  reads,     \* number of si_readByte calls made by the caller's call
  wmax,      \* highest buffer index written by the current si_readByte call
  rmax       \* highest buffer index read by the accessor after that call

stream == <<line, nlines, eof>>
frame == <<top, fn, allowed>>
reader == <<buffer, maxLen, i, c, len, result, consumed, wmax, rmax>>
vars == <<line, nlines, eof, pc, top, fn, allowed, buffer, maxLen, i, c, len,
          result, cval, ret, stderr, consumed, reads, wmax, rmax>>

\* ------------------------------------------------------------------ values

NoChar == -2           \* an object that holds no defined value yet
NULLP == <<-1>>        \* the null pointer, as an allow-set argument

Value(tag, sgn, mag, n, bytes) ==
  [tag |-> tag, sgn |-> sgn, mag |-> mag, n |-> n, bytes |-> bytes]
None == Value("none", "pos", <<>>, 0, <<>>)
IntVal(sgn, mag) == Value("int", sgn, mag, 0, <<>>)
FltVal(sgn, mag) == Value("flt", sgn, mag, 0, <<>>)
NaN == Value("nan", "pos", <<>>, 0, <<>>)
ChrVal(n) == Value("chr", "pos", <<>>, n, <<>>)
BoolVal(b) == Value("bool", "pos", <<>>, IF b THEN 1 ELSE 0, <<>>)
NullPtr == Value("null", "pos", <<>>, 0, <<>>)
CStrVal(bytes) == Value("char*", "pos", <<>>, Len(bytes), bytes)
SiString(bytes, n) == Value("si_string", "pos", <<>>, n, bytes)
SiStringNull == Value("si_string_null", "pos", <<>>, 0, <<>>)

\* (char)c and (unsigned char)x with gcc's signed 8-bit char
ToChar(b) == IF b >= 128 THEN b - 256 ELSE b
ToUChar(x) == IF x < 0 THEN x + 256 ELSE x

\* ------------------------------------------------- <stdlib.h> conversions

IsSpace(x) == x \in {9, 10, 11, 12, 13, 32}
IsDigit(x) == x \in 48..57

\* buf[k], 0-based; a cell never written holds no defined value
At(buf, k) == IF k < Len(buf) THEN buf[k + 1] ELSE NoChar

\* F(v), with v evaluated once however often F uses it
Bind(v, F(_)) == CHOOSE y \in {F(x) : x \in {v}} : TRUE

\* The first position from k on that holds a zero byte, Len(buf) + 1 if none
FirstNul(buf, k) ==
  IF k > Len(buf) THEN k
  ELSE CHOOSE q \in k..(Len(buf) + 1) :
         /\ q = Len(buf) + 1 \/ buf[q] = 0
         /\ \A j \in k..(q - 1) : buf[j] # 0

\* The C string at buf: the bytes before the first zero byte
CStr(buf) == SubSeq(buf, 1, FirstNul(buf, 1) - 1)

RECURSIVE SkipSpace(_, _)
SkipSpace(s, k) == IF k <= Len(s) /\ IsSpace(s[k]) THEN SkipSpace(s, k + 1) ELSE k

\* The first position from k on that holds no digit, Len(s) + 1 if none
SkipDigits(s, k) ==
  IF k > Len(s) THEN k
  ELSE CHOOSE q \in k..(Len(s) + 1) :
         /\ q = Len(s) + 1 \/ ~IsDigit(s[q])
         /\ \A j \in k..(q - 1) : IsDigit(s[j])

RECURSIVE Strip(_)
Strip(ds) == IF ds # <<>> /\ Head(ds) = 0 THEN Strip(Tail(ds)) ELSE ds

MagLT(a, b) ==
  \/ Len(a) < Len(b)
  \/ /\ Len(a) = Len(b)
     /\ \E k \in 1..Len(a) : a[k] < b[k] /\ \A j \in 1..(k - 1) : a[j] = b[j]

MagLE(a, b) == a = b \/ MagLT(a, b)

Num(sgn, mag) == [sgn |-> IF mag = <<>> THEN "pos" ELSE sgn, mag |-> mag]

\* The subject sequence of a base-10 strto*: white space, an optional sign,
\* decimal digits.  end is endptr - nptr (0 when there is no digit), last
\* the highest offset the scan reads.
Subject(str) ==
  Bind(str, LAMBDA s :
    LET p0 == SkipSpace(s, 1)
        sign == p0 <= Len(s) /\ s[p0] \in {43, 45}
        p1 == IF sign THEN p0 + 1 ELSE p0
    IN  Bind(SkipDigits(s, p1), LAMBDA q :
          [neg |-> sign /\ s[p0] = 45,
           any |-> q > p1,
           mag |-> Strip([k \in 1..(q - p1) |-> s[p1 + k - 1] - 48]),
           end |-> IF q > p1 THEN q - 1 ELSE 0,
           last |-> q - 1]))

\* strtol( s, &endptr, 10 ) with a 64-bit long
strtol(s) ==
  Bind(Subject(s), LAMBDA u :
    LET over == IF u.neg THEN MagLT(LONG_MIN_MAG, u.mag) ELSE MagLT(LONG_MAX_MAG, u.mag)
    IN  [val |-> IF ~u.any THEN Num("pos", <<>>)
                 ELSE IF over THEN (IF u.neg THEN Num("neg", LONG_MIN_MAG)
                                             ELSE Num("pos", LONG_MAX_MAG))
                 ELSE Num(IF u.neg THEN "neg" ELSE "pos", u.mag),
         end |-> u.end, erange |-> u.any /\ over, last |-> u.last])

\* strtoll( s, &endptr, 10 ): long long is 64 bits as well
strtoll(s) == strtol(s)

\* strtoul( s, &endptr, 10 ): a negated value is returned modulo ULONG_MAX + 1,
\* kept here as sgn "wrap": ULONG_MAX + 1 - mag
strtoul(s) ==
  Bind(Subject(s), LAMBDA u :
    LET over == MagLT(ULONG_MAX_MAG, u.mag)
    IN  [val |-> IF ~u.any THEN Num("pos", <<>>)
                 ELSE IF over THEN Num("pos", ULONG_MAX_MAG)
                 ELSE Num(IF u.neg THEN "wrap" ELSE "pos", u.mag),
         end |-> u.end, erange |-> u.any /\ over, last |-> u.last])

strtoull(s) == strtoul(s)

\* strtof( s, &endptr ) on the lines under test: none holds '.', an exponent,
\* "0x", "inf" or "nan", so the subject sequence is the decimal one.  val is
\* the float nearest to the decimal number; inf stands for HUGE_VALF.
strtof(s) ==
  Bind(Subject(s), LAMBDA u :
    LET over == MagLT(FLT_MAX_MAG, u.mag)
    IN  [val |-> Num(IF u.neg THEN "neg" ELSE "pos", u.mag), inf |-> u.any /\ over,
         end |-> u.end, erange |-> u.any /\ over, last |-> u.last])

\* strtod( s, &endptr ): no decimal number of at most 127 digits exceeds DBL_MAX
strtod(s) ==
  Bind(Subject(s), LAMBDA u :
    [val |-> Num(IF u.neg THEN "neg" ELSE "pos", u.mag), inf |-> FALSE,
     end |-> u.end, erange |-> FALSE, last |-> u.last])

\* value == (int)value, and value <= UINT_MAX
InIntRange(v) ==
  IF v.sgn = "neg" THEN MagLE(v.mag, INT_MIN_MAG) ELSE MagLE(v.mag, INT_MAX_MAG)
InUIntRange(v) ==
  IF v.sgn = "wrap" THEN MagLT(WRAP_ABOVE_UINT_MAG, v.mag) ELSE MagLE(v.mag, UINT_MAX_MAG)

\* strchr( a, x ) != NULL: the terminating zero byte of a is part of the string
StrChr(a, x) == x = 0 \/ \E k \in 1..Len(a) : ToChar(a[k]) = x

\* ------------------------------------------------------------------- stdin

\* What the next getchar_unlocked() may deliver; end-of-stream, once
\* delivered, is delivered again
NextChars ==
  IF eof THEN {EOF}
  ELSE {EOF} \cup
       (IF line = <<>> /\ nlines >= MaxLines THEN {}
        ELSE {NL} \cup {b \in Bytes : LinePrefix(Append(line, b))})

\* getchar_unlocked() delivering ch
Getc(ch) ==
  /\ ch \in NextChars
  /\ eof' = (ch = EOF)
  /\ line' = IF ch = NL \/ ch = EOF THEN <<>> ELSE Append(line, ch)
  /\ nlines' = IF ch = NL THEN nlines + 1 ELSE nlines
  /\ consumed' = Append(consumed, ch)

\* ------------------------------------------------------------- si_readByte

\* buf[k] = x, where the cells never written hold no defined value
Store(buf, k, x) ==
  IF k < Len(buf) THEN [buf EXCEPT ![k + 1] = x]
  ELSE buf \o [j \in 1..(k - Len(buf)) |-> NoChar] \o <<x>>

Max(a, b) == IF a >= b THEN a ELSE b

\* Entry of si_readByte( buffer, cap, &len ): the argument check, i = 0.
\* buffer, len and c are objects of a new iteration or call: what an earlier
\* one left in them is never read before it is written again, and is dropped.
ReadByteEnter(cap) ==
  /\ maxLen' = cap
  /\ i' = 0
  /\ c' = NoChar
  /\ len' = NoChar
  /\ buffer' = <<>>
  /\ consumed' = <<>>
  /\ wmax' = -1
  /\ rmax' = -1
  /\ IF cap < 1
       THEN pc' = "rb_ret" /\ result' = RB_ERR
       ELSE pc' = "rb_loop" /\ result' = NoChar

\* A call that returns before it has a buffer or calls si_readByte
NoRead ==
  /\ maxLen' = 0 /\ i' = 0 /\ c' = NoChar /\ len' = NoChar /\ buffer' = <<>>
  /\ consumed' = <<>> /\ wmax' = -1 /\ rmax' = -1 /\ result' = NoChar

\* One iteration of the for loop
ReadByteLoop ==
  /\ pc = "rb_loop"
  /\ i < maxLen
  /\ \E ch \in NextChars :
       /\ Getc(ch)
       /\ c' = ch
       /\ IF ch = NL \/ ch = EOF
            THEN pc' = "rb_end" /\ UNCHANGED <<buffer, i, wmax>>
            ELSE /\ buffer' = Store(buffer, i, ToChar(ch))
                 /\ wmax' = Max(wmax, i)
                 /\ i' = i + 1
                 /\ pc' = "rb_loop"
  /\ UNCHANGED <<frame, maxLen, len, result, cval, ret, stderr, reads, rmax>>

\* ReadByteEnd without the overrun test: a full buffer is a success
ReadByteEnd_NoOverrun ==
  /\ pc = "rb_end" \/ (pc = "rb_loop" /\ i >= maxLen)
  /\ len' = i
  /\ pc' = "rb_ret"
  /\ result' = IF c = EOF /\ i = 0 THEN EOF ELSE RB_OK
  /\ UNCHANGED <<stream, frame, buffer, maxLen, i, c, cval, ret, stderr,
                 consumed, reads, wmax, rmax>>

\* ReadByteEnd without the end-of-stream test: end-of-stream is an empty line
ReadByteEnd_NoEof ==
  /\ pc = "rb_end" \/ (pc = "rb_loop" /\ i >= maxLen)
  /\ len' = i
  /\ IF i = maxLen /\ c # NL /\ c # EOF
       THEN pc' = "rb_drain" /\ UNCHANGED result
       ELSE pc' = "rb_ret" /\ result' = RB_OK
  /\ UNCHANGED <<stream, frame, buffer, maxLen, i, c, cval, ret, stderr,
                 consumed, reads, wmax, rmax>>

\* ReadByteEnd signalling end-of-stream whenever the loop ended on EOF, the
\* bytes read before it lost
ReadByteEnd_EofAny ==
  /\ pc = "rb_end" \/ (pc = "rb_loop" /\ i >= maxLen)
  /\ len' = i
  /\ IF i = maxLen /\ c # NL /\ c # EOF
       THEN pc' = "rb_drain" /\ UNCHANGED result
       ELSE /\ pc' = "rb_ret"
            /\ result' = IF c = EOF THEN EOF ELSE RB_OK
  /\ UNCHANGED <<stream, frame, buffer, maxLen, i, c, cval, ret, stderr,
                 consumed, reads, wmax, rmax>>

\* After the loop: *outLen = i, then overrun, end-of-stream or success
ReadByteEnd ==
  /\ pc = "rb_end" \/ (pc = "rb_loop" /\ i >= maxLen)
  /\ len' = i
  /\ IF i = maxLen /\ c # NL /\ c # EOF
       THEN pc' = "rb_drain" /\ UNCHANGED result
       ELSE /\ pc' = "rb_ret"
            /\ result' = IF c = EOF /\ i = 0 THEN EOF ELSE RB_OK
  /\ UNCHANGED <<stream, frame, buffer, maxLen, i, c, cval, ret, stderr,
                 consumed, reads, wmax, rmax>>

\* DrainStdin with an if for the while: one byte is discarded, not the line
DrainStdin_Once ==
  /\ pc = "rb_drain"
  /\ \E ch \in NextChars :
       /\ Getc(ch)
       /\ stderr' = Append(stderr, MSG_OVERRUN)
       /\ result' = RB_ERR
       /\ pc' = "rb_ret"
  /\ UNCHANGED <<frame, buffer, maxLen, i, c, len, cval, ret, reads, wmax, rmax>>

\* si_drainStdin: one getchar_unlocked(); at the line's end the overrun is
\* reported and si_readByte returns 1
DrainStdin ==
  /\ pc = "rb_drain"
  /\ \E ch \in NextChars :
       /\ Getc(ch)
       /\ IF ch = NL \/ ch = EOF
            THEN /\ stderr' = Append(stderr, MSG_OVERRUN)
                 /\ result' = RB_ERR
                 /\ pc' = "rb_ret"
            ELSE UNCHANGED <<stderr, result, pc>>
  /\ UNCHANGED <<frame, buffer, maxLen, i, c, len, cval, ret, reads, wmax, rmax>>

\* ------------------------------------------------------------------- calls

Idle == pc \in {"idle", "done"}

\* The caller calls t, whose frame f then runs, with argument a
NewCall(t, f, a) ==
  /\ Idle
  /\ top' = t
  /\ fn' = f
  /\ allowed' = a
  /\ cval' = NoChar
  /\ reads' = IF a = NULLP \/ (t = "si_getCharFiltered" /\ a = <<>>) THEN 0 ELSE 1
  /\ UNCHANGED stream

\* The call has returned nothing and reported nothing yet
Entered == ret' = None /\ stderr' = <<>>

\* The frame returns v to the caller; b is its buffer, r the highest buffer
\* offset it read, msgs what it wrote to stderr
Return(v, b, r, msgs) ==
  /\ pc' = "done"
  /\ ret' = v
  /\ buffer' = b
  /\ rmax' = r
  /\ stderr' = stderr \o msgs
  /\ UNCHANGED <<stream, frame, maxLen, i, c, len, result, cval, consumed, reads, wmax>>

\* The frame rejects the line and reaches continue (or the loop's end)
Retry(b, r, msgs) ==
  /\ pc' = "continue"
  /\ buffer' = b
  /\ rmax' = r
  /\ stderr' = stderr \o msgs
  /\ UNCHANGED <<stream, frame, maxLen, i, c, len, result, cval, ret, consumed, reads, wmax>>

\* Cap with sizeof(buffer) passed everywhere, the - 1 forgotten
Cap_Sizeof(f) ==
  IF f \in {"si_getChar", "si_getCharFiltered", "si_getBool"}
  THEN CHAR_INPUT_BUFFER_SIZE
  ELSE INPUT_BUFFER_SIZE

\* The capacity each accessor passes to si_readByte
Cap(f) ==
  IF f = "si_getString" THEN INPUT_BUFFER_SIZE
  ELSE IF f \in {"si_getChar", "si_getCharFiltered", "si_getBool"}
  THEN CHAR_INPUT_BUFFER_SIZE - 1
  ELSE INPUT_BUFFER_SIZE - 1

\* The next iteration of while ( 1 ): si_readByte is called again (by
\* si_getChar, called again, when the loop is si_getBool's)
Continue ==
  /\ pc = "continue"
  /\ ReadByteEnter(Cap(fn))
  /\ fn' = IF fn = "si_getBool" THEN "si_getChar" ELSE fn
  /\ reads' = reads + 1
  /\ UNCHANGED <<stream, top, allowed, cval, ret, stderr>>

\* si_readByte called on its own, with a buffer of cap bytes
CallReadByte ==
  \E cap \in 0..MaxCap :
    NewCall("si_readByte", "si_readByte", <<>>) /\ Entered /\ ReadByteEnter(cap)

ReturnReadByte ==
  /\ pc = "rb_ret" /\ fn = "si_readByte"
  /\ Return(ChrVal(result), buffer, -1, <<>>)

\* The accessors that start with si_readByte( buffer, sizeof(buffer) - 1, &len )
LineAccessors ==
  {"si_getInt", "si_getUInt", "si_getFloat", "si_getDouble", "si_getLong",
   "si_getULong", "si_getLongLong", "si_getULongLong", "si_getCString"}

CallLineAccessor ==
  \E f \in LineAccessors :
    NewCall(f, f, <<>>) /\ Entered /\ ReadByteEnter(Cap(f))

CallGetString ==
  /\ NewCall("si_getString", "si_getString", <<>>)
  /\ Entered
  /\ ReadByteEnter(Cap("si_getString"))

CallGetChar ==
  /\ NewCall("si_getChar", "si_getChar", <<>>)
  /\ Entered
  /\ ReadByteEnter(Cap("si_getChar"))

\* si_getBool enters its loop and calls si_getChar
CallGetBool ==
  /\ NewCall("si_getBool", "si_getChar", <<>>)
  /\ Entered
  /\ ReadByteEnter(Cap("si_getBool"))

\* The allow-sets si_getCharFiltered is called with: NULL, "", "a", "\ny"
AllowSets == {NULLP, <<>>, <<97>>, <<10, 121>>}

CallGetCharFiltered ==
  \E a \in AllowSets :
    /\ NewCall("si_getCharFiltered", "si_getCharFiltered", a)
    /\ IF a = NULLP
         THEN /\ stderr' = <<MSG_NULL_ALLOWED>>
              /\ pc' = "exit"
              /\ ret' = None
              /\ NoRead
         ELSE IF a = <<>>
         THEN /\ stderr' = <<MSG_NO_ALLOWED>>
              /\ ret' = ChrVal(1)
              /\ pc' = "done"
              /\ NoRead
         ELSE Entered /\ ReadByteEnter(Cap("si_getCharFiltered"))

\* --------------------------------------------------------------- accessors

Ready(f) == pc = "rb_ret" /\ fn = f

\* endptr == buffer || *endptr != '\0' || errno == ERANGE
Unconverted(b, r) == r.end = 0 \/ At(b, r.end) # 0 \/ r.erange

\* si_getInt testing si_readByte(...) == 1: end-of-stream is not returned on
si_getInt_EofConverted ==
  /\ Ready("si_getInt")
  /\ IF result = 1
       THEN Return(IntVal("neg", INT_MIN_MAG), buffer, -1, <<>>)
       ELSE \E b \in {Store(buffer, len, 0)} : \E r \in {strtol(CStr(b))} :
                IF Unconverted(b, r) \/ ~InIntRange(r.val)
                  THEN Retry(b, r.last, <<MSG_INVALID>>)
                  ELSE Return(IntVal(r.val.sgn, r.val.mag), b, r.last, <<>>)

si_getInt ==
  /\ Ready("si_getInt")
  /\ IF result # 0
       THEN Return(IntVal("neg", INT_MIN_MAG), buffer, -1, <<>>)
       ELSE \E b \in {Store(buffer, len, 0)} : \E r \in {strtol(CStr(b))} :
                IF Unconverted(b, r) \/ ~InIntRange(r.val)
                  THEN Retry(b, r.last, <<MSG_INVALID>>)
                  ELSE Return(IntVal(r.val.sgn, r.val.mag), b, r.last, <<>>)

si_getUInt ==
  /\ Ready("si_getUInt")
  /\ IF result # 0
       THEN Return(IntVal("pos", UINT_MAX_MAG), buffer, -1, <<>>)
       ELSE \E b \in {Store(buffer, len, 0)} : \E r \in {strtoul(CStr(b))} :
                IF At(b, 0) = 45
                  THEN Retry(b, r.last, <<MSG_NEGATIVE>>)
                  ELSE IF Unconverted(b, r) \/ ~InUIntRange(r.val)
                  THEN Retry(b, r.last, <<MSG_INVALID>>)
                  ELSE Return(IntVal(r.val.sgn, r.val.mag), b, r.last, <<>>)

si_getFloat ==
  /\ Ready("si_getFloat")
  /\ IF result # 0
       THEN Return(NaN, buffer, -1, <<>>)
       ELSE \E b \in {Store(buffer, len, 0)} : \E r \in {strtof(CStr(b))} :
                IF Unconverted(b, r) \/ r.inf
                  THEN Retry(b, r.last, <<MSG_INVALID>>)
                  ELSE Return(FltVal(r.val.sgn, r.val.mag), b, r.last, <<>>)

si_getDouble ==
  /\ Ready("si_getDouble")
  /\ IF result # 0
       THEN Return(NaN, buffer, -1, <<>>)
       ELSE \E b \in {Store(buffer, len, 0)} : \E r \in {strtod(CStr(b))} :
                IF Unconverted(b, r) \/ r.inf
                  THEN Retry(b, r.last, <<MSG_INVALID>>)
                  ELSE Return(FltVal(r.val.sgn, r.val.mag), b, r.last, <<>>)

si_getLong ==
  /\ Ready("si_getLong")
  /\ IF result # 0
       THEN Return(IntVal("neg", LONG_MIN_MAG), buffer, -1, <<>>)
       ELSE \E b \in {Store(buffer, len, 0)} : \E r \in {strtol(CStr(b))} :
                IF Unconverted(b, r)
                  THEN Retry(b, r.last, <<MSG_INVALID>>)
                  ELSE Return(IntVal(r.val.sgn, r.val.mag), b, r.last, <<>>)

si_getULong ==
  /\ Ready("si_getULong")
  /\ IF result # 0
       THEN Return(IntVal("pos", ULONG_MAX_MAG), buffer, -1, <<>>)
       ELSE \E b \in {Store(buffer, len, 0)} : \E r \in {strtoul(CStr(b))} :
                IF Unconverted(b, r)
                  THEN Retry(b, r.last, <<MSG_INVALID>>)
                  ELSE Return(IntVal(r.val.sgn, r.val.mag), b, r.last, <<>>)

si_getLongLong ==
  /\ Ready("si_getLongLong")
  /\ IF result # 0
       THEN Return(IntVal("neg", LONG_MIN_MAG), buffer, -1, <<>>)
       ELSE \E b \in {Store(buffer, len, 0)} : \E r \in {strtoll(CStr(b))} :
                IF Unconverted(b, r)
                  THEN Retry(b, r.last, <<MSG_INVALID>>)
                  ELSE Return(IntVal(r.val.sgn, r.val.mag), b, r.last, <<>>)

si_getULongLong ==
  /\ Ready("si_getULongLong")
  /\ IF result # 0
       THEN Return(IntVal("pos", ULONG_MAX_MAG), buffer, -1, <<>>)
       ELSE \E b \in {Store(buffer, len, 0)} : \E r \in {strtoull(CStr(b))} :
                IF Unconverted(b, r)
                  THEN Retry(b, r.last, <<MSG_INVALID>>)
                  ELSE Return(IntVal(r.val.sgn, r.val.mag), b, r.last, <<>>)

\* si_getChar returns v: to the caller, or into si_getBool's c
ReturnChar(v, b, r) ==
  /\ buffer' = b
  /\ rmax' = r
  /\ IF top = "si_getBool"
       THEN pc' = "gb_ret" /\ fn' = "si_getBool" /\ cval' = v /\ UNCHANGED ret
       ELSE pc' = "done" /\ ret' = ChrVal(v) /\ UNCHANGED <<fn, cval>>
  /\ UNCHANGED <<stream, top, allowed, maxLen, i, c, len, result, stderr,
                 consumed, reads, wmax>>

\* si_getChar returning buffer[0] without the (unsigned char) cast
si_getChar_PlainChar ==
  /\ Ready("si_getChar")
  /\ LET b == Store(buffer, len, 0)
     IN  IF result = EOF THEN ReturnChar(EOF, b, -1)
         ELSE IF result = 1 THEN Retry(b, -1, <<>>)
         ELSE IF len = 0 THEN ReturnChar(NL, b, -1)
         ELSE IF len = 1 THEN ReturnChar(At(b, 0), b, 0)
         ELSE Retry(b, -1, <<MSG_SINGLE>>)

\* si_getChar with continue for end-of-stream too
si_getChar_EofRetry ==
  /\ Ready("si_getChar")
  /\ LET b == Store(buffer, len, 0)
     IN  IF result = EOF \/ result = 1 THEN Retry(b, -1, <<>>)
         ELSE IF len = 0 THEN ReturnChar(NL, b, -1)
         ELSE IF len = 1 THEN ReturnChar(ToUChar(At(b, 0)), b, 0)
         ELSE Retry(b, -1, <<MSG_SINGLE>>)

si_getChar ==
  /\ Ready("si_getChar")
  /\ LET b == Store(buffer, len, 0)
     IN  IF result = EOF THEN ReturnChar(EOF, b, -1)
         ELSE IF result = 1 THEN Retry(b, -1, <<>>)
         ELSE IF len = 0 THEN ReturnChar(NL, b, -1)
         ELSE IF len = 1 THEN ReturnChar(ToUChar(At(b, 0)), b, 0)
         ELSE Retry(b, -1, <<MSG_SINGLE>>)

si_getCharFiltered ==
  /\ Ready("si_getCharFiltered")
  /\ LET b == Store(buffer, len, 0)
     IN  IF result = EOF THEN Return(ChrVal(EOF), b, -1, <<>>)
         ELSE IF result = 1 THEN Retry(b, -1, <<>>)
         ELSE IF len # 1 THEN Retry(b, -1, <<MSG_SINGLE>>)
         ELSE IF StrChr(allowed, At(b, 0))
                THEN Return(ChrVal(ToUChar(At(b, 0))), b, 0, <<>>)
                ELSE Retry(b, 0, <<MSG_ALLOWED>>)

\* malloc( len+1 ) succeeds or not
si_getCString ==
  /\ Ready("si_getCString")
  /\ IF result # 0
       THEN Return(NullPtr, buffer, -1, <<>>)
       ELSE \E b \in {Store(buffer, len, 0)} :
                \E str \in BOOLEAN :
                  IF ~str
                    THEN Return(NullPtr, b, -1, <<MSG_MALLOC>>)
                    ELSE Return(CStrVal([k \in 1..(len + 1) |-> At(b, k - 1)]), b, len, <<>>)

\* malloc( len ? len : 1 ) succeeds or not
si_getString ==
  /\ Ready("si_getString")
  /\ IF result # 0
       THEN Return(SiStringNull, buffer, -1, <<>>)
       ELSE \E data \in BOOLEAN :
              IF ~data
                THEN Return(SiStringNull, buffer, -1, <<MSG_MALLOC>>)
                ELSE Return(SiString([k \in 1..len |-> At(buffer, k - 1)], len),
                            buffer, len - 1, <<>>)

\* si_getBool comparing with the lower-case letters only
si_getBool_LowerOnly ==
  /\ pc = "gb_ret" /\ fn = "si_getBool"
  /\ IF cval = EOF
       THEN Return(BoolVal(FALSE), buffer, rmax, <<MSG_BOOL_EOF>>)
       ELSE IF cval = 121
       THEN Return(BoolVal(TRUE), buffer, rmax, <<>>)
       ELSE IF cval = 110
       THEN Return(BoolVal(FALSE), buffer, rmax, <<>>)
       ELSE Retry(buffer, rmax, <<MSG_BOOL>>)

\* si_getBool taking end-of-stream for one more invalid answer
si_getBool_EofRetry ==
  /\ pc = "gb_ret" /\ fn = "si_getBool"
  /\ IF cval = 89 \/ cval = 121
       THEN Return(BoolVal(TRUE), buffer, rmax, <<>>)
       ELSE IF cval = 78 \/ cval = 110
       THEN Return(BoolVal(FALSE), buffer, rmax, <<>>)
       ELSE Retry(buffer, rmax, <<MSG_BOOL>>)

\* si_getBool after int c = si_getChar()
si_getBool ==
  /\ pc = "gb_ret" /\ fn = "si_getBool"
  /\ IF cval = EOF
       THEN Return(BoolVal(FALSE), buffer, rmax, <<MSG_BOOL_EOF>>)
       ELSE IF cval = 89 \/ cval = 121
       THEN Return(BoolVal(TRUE), buffer, rmax, <<>>)
       ELSE IF cval = 78 \/ cval = 110
       THEN Return(BoolVal(FALSE), buffer, rmax, <<>>)
       ELSE Retry(buffer, rmax, <<MSG_BOOL>>)

\* ----------------------------------------------------------- specification

Init ==
  /\ line = <<>> /\ nlines = 0 /\ eof = FALSE
  /\ pc = "idle" /\ top = "none" /\ fn = "none" /\ allowed = <<>>
  /\ buffer = <<>> /\ maxLen = 0 /\ i = 0 /\ c = NoChar /\ len = NoChar
  /\ result = NoChar /\ cval = NoChar /\ ret = None /\ stderr = <<>>
  /\ consumed = <<>> /\ reads = 0 /\ wmax = -1 /\ rmax = -1

Next ==
  \/ CallReadByte
  \/ CallLineAccessor
  \/ CallGetString
  \/ CallGetChar
  \/ CallGetBool
  \/ CallGetCharFiltered
  \/ ReadByteLoop
  \/ ReadByteEnd
  \/ DrainStdin
  \/ ReturnReadByte
  \/ Continue
  \/ si_getInt
  \/ si_getUInt
  \/ si_getFloat
  \/ si_getDouble
  \/ si_getLong
  \/ si_getULong
  \/ si_getLongLong
  \/ si_getULongLong
  \/ si_getChar
  \/ si_getCharFiltered
  \/ si_getCString
  \/ si_getString
  \/ si_getBool

Spec == Init /\ [][Next]_vars

\* The steps of a call in progress: the program runs on while it has not
\* returned, and getchar_unlocked() returns on a stream that ends
Step ==
  \/ ReadByteLoop
  \/ ReadByteEnd
  \/ DrainStdin
  \/ ReturnReadByte
  \/ Continue
  \/ si_getInt
  \/ si_getUInt
  \/ si_getFloat
  \/ si_getDouble
  \/ si_getLong
  \/ si_getULong
  \/ si_getLongLong
  \/ si_getULongLong
  \/ si_getChar
  \/ si_getCharFiltered
  \/ si_getCString
  \/ si_getString
  \/ si_getBool

LiveSpec == Spec /\ WF_vars(Step)

\* ------------------------------------------------------------------ claims

RECURSIVE FirstEnd(_, _)
FirstEnd(cs, k) ==
  IF k > Len(cs) \/ cs[k] = NL \/ cs[k] = EOF THEN k ELSE FirstEnd(cs, k + 1)

\* The bytes of the physical line a si_readByte call took from the stream:
\* what it was delivered before the first terminator or end-of-stream
LineOf(cs) == SubSeq(cs, 1, FirstEnd(cs, 1) - 1)

\* The bytes a buffer holds, as unsigned char
Unsigned(buf) == [k \in 1..Len(buf) |-> ToUChar(buf[k])]

Returned == pc = "rb_ret" /\ maxLen >= 1

\* sizeof(buffer) of the frame that calls si_readByte; a direct call passes
\* a buffer of maxLen bytes
BufSize(f) ==
  IF f \in {"si_getChar", "si_getCharFiltered", "si_getBool"} THEN CHAR_INPUT_BUFFER_SIZE
  ELSE IF f = "si_readByte" THEN maxLen
  ELSE INPUT_BUFFER_SIZE

SentinelAccessors ==
  LineAccessors \cup {"si_getString", "si_getChar", "si_getCharFiltered"}

\* The failure value each accessor documents
Sentinel(f) ==
  CASE f = "si_getInt" -> IntVal("neg", INT_MIN_MAG)
    [] f \in {"si_getLong", "si_getLongLong"} -> IntVal("neg", LONG_MIN_MAG)
    [] f = "si_getUInt" -> IntVal("pos", UINT_MAX_MAG)
    [] f \in {"si_getULong", "si_getULongLong"} -> IntVal("pos", ULONG_MAX_MAG)
    [] f \in {"si_getFloat", "si_getDouble"} -> NaN
    [] f \in {"si_getChar", "si_getCharFiltered"} -> ChrVal(EOF)
    [] f = "si_getCString" -> NullPtr
    [] f = "si_getString" -> SiStringNull

\* C1: for every capacity c >= 1 and every line of L bytes, a si_readByte call
\* returns 0 with len = L and the line's bytes in buf when L < c, and returns 1
\* with exactly the line's first c bytes in buf when L >= c.  (End-of-stream
\* with nothing before it is no line: that is C5's case.)
C1_LineReader ==
  (Returned /\ consumed # <<EOF>>) =>
    LET l == LineOf(consumed)
    IN  IF Len(l) < maxLen
          THEN result = RB_OK /\ len = Len(l) /\ Unsigned(buffer) = l
          ELSE result = RB_ERR /\ Unsigned(buffer) = SubSeq(l, 1, maxLen)

\* A line of exactly c = 127 bytes has been read by an accessor: overrun
C1_Witness ==
  /\ Returned /\ result = RB_ERR /\ maxLen = INPUT_BUFFER_SIZE - 1
  /\ Len(LineOf(consumed)) = maxLen /\ consumed[Len(consumed)] = NL

\* C2: in every typed accessor an overrun of the line reader is reported and
\* another line is read: no accessor returns to its caller from the
\* iteration in which si_readByte signalled overrun.
C2_OverrunNeverReturned ==
  (pc = "done" /\ top \in SentinelAccessors) => result # RB_ERR

\* C3: an accessor returns its sentinel failure value only from a call in
\* which the line reader signalled end-of-stream.  (Stated for the returns
\* that do not come from a converted line: a line whose own value is the
\* sentinel is the ambiguity the documentation accepts.)
C3_SentinelOnlyAtEof ==
  (pc = "done" /\ top \in SentinelAccessors /\ ret = Sentinel(top) /\ result # RB_OK)
    => result = EOF

\* C4: when si_readByte signals end-of-stream inside a typed accessor, the
\* accessor's next step returns its sentinel: nothing more is read from the
\* stream and si_readByte is not called again, however many lines the call
\* rejected before.
C4_EofReturnsSentinel ==
  [][(pc = "rb_ret" /\ result = EOF /\ top \in SentinelAccessors)
       => (pc' = "done" /\ ret' = Sentinel(top) /\ stream' = stream /\ reads' = reads)]_vars

\* si_getInt has returned INT_MIN at end-of-stream after rejecting a line
C4_Witness ==
  /\ pc = "done" /\ top = "si_getInt" /\ result = EOF /\ reads >= 2
  /\ ret = Sentinel("si_getInt") /\ stderr # <<>>

\* C5: for every capacity c >= 1, a si_readByte call that meets end-of-stream
\* before any byte returns EOF, and it returns success with count 0 exactly
\* when the first thing it reads is a line terminator.
C5_EndOfStream ==
  Returned =>
    /\ consumed = <<EOF>> => result = EOF
    /\ (result = RB_OK /\ len = 0) <=> (consumed[1] = NL)

\* End-of-stream met at once by a call that follows a complete line
C5_Witness == Returned /\ consumed = <<EOF>> /\ result = EOF /\ nlines >= 1

\* C6: every write into a staging buffer is inside it: si_readByte writes
\* only buf[i] with i < maxLen, the length it records is at most maxLen, the
\* accessor's terminator goes to an index below the buffer's size, and the
\* accessor reads no byte at an index >= len but that terminator.
C6_BufferBounds ==
  /\ wmax < maxLen \/ wmax = -1
  /\ wmax < BufSize(fn)
  /\ Returned => (0 <= len /\ len <= maxLen)
  /\ (pc = "rb_ret" /\ (\/ fn \in {"si_getChar", "si_getCharFiltered"}
                        \/ fn \in LineAccessors /\ result = RB_OK))
       => (0 <= len /\ len < BufSize(fn))
  /\ (pc \in {"done", "continue", "gb_ret"} /\ rmax >= 0)
       => (rmax <= len /\ (rmax = len => At(buffer, len) = 0))

\* si_getChar has put its terminator into the last cell of its buffer, after
\* a line longer than any buffer
C6_Witness ==
  /\ pc = "continue" /\ fn = "si_getChar" /\ result = RB_ERR
  /\ Len(buffer) = CHAR_INPUT_BUFFER_SIZE /\ buffer[CHAR_INPUT_BUFFER_SIZE] = 0
  /\ Len(consumed) > INPUT_BUFFER_SIZE

\* C7: a si_readByte call that returns success or overrun has consumed the
\* physical line it started in, that line's terminator (or end-of-stream),
\* and nothing else: it starts at a line's first byte and leaves the stream
\* at the next line's first byte.
C7_LineBoundary ==
  /\ pc \in {"rb_loop", "rb_drain"} => line = consumed
  /\ (Returned /\ result \in {RB_OK, RB_ERR})
       => (line = <<>> /\ Len(consumed) = Len(LineOf(consumed)) + 1)

\* An overrun on the stream's second line, with bytes drained after the buffer
C7_Witness ==
  /\ Returned /\ result = RB_ERR /\ nlines = 2
  /\ Len(consumed) > maxLen + 2 /\ consumed[Len(consumed)] = NL

\* A decimal integer literal: an optional sign and at least one digit (after
\* the white space strtol skips)
Unspaced(l) == SubSeq(l, SkipSpace(l, 1), Len(l))
SignStripped(t) == IF t # <<>> /\ t[1] \in {43, 45} THEN Tail(t) ELSE t
IsLiteral(l) ==
  LET d == SignStripped(Unspaced(l))
  IN  d # <<>> /\ \A k \in 1..Len(d) : d[k] \in 48..57
LiteralValue(l) ==
  LET t == Unspaced(l)
      d == SignStripped(t)
  IN  Num(IF t[1] = 45 THEN "neg" ELSE "pos", Strip([k \in 1..Len(d) |-> d[k] - 48]))

\* C8: si_getInt returns a line's value exactly when the whole line is a
\* decimal integer literal with a value in [INT_MIN, INT_MAX]; every other
\* line is rejected with the diagnostic and another line is read.
C8_GetIntExact ==
  (top = "si_getInt" /\ pc \in {"done", "continue"} /\ result = RB_OK) =>
    LET l == LineOf(consumed)
    IN  IF IsLiteral(l) /\ InIntRange(LiteralValue(l))
          THEN pc = "done" /\ ret = IntVal(LiteralValue(l).sgn, LiteralValue(l).mag)
          ELSE pc = "continue" /\ stderr[Len(stderr)] = MSG_INVALID

\* C9: every unsigned accessor rejects a literal with a leading '-' with the
\* "can not be negative" diagnostic and never returns a wrapped-around value.
C9_UnsignedRejectsNegative ==
  (top \in {"si_getUInt", "si_getULong", "si_getULongLong"}
     /\ pc \in {"done", "continue"} /\ result = RB_OK) =>
    LET l == LineOf(consumed)
    IN  /\ pc = "done" => ret.sgn # "wrap"
        /\ (l # <<>> /\ l[1] = 45 /\ IsLiteral(l))
             => (pc = "continue" /\ stderr[Len(stderr)] = MSG_NEGATIVE)

\* C10: si_getChar returns '\n' for an empty line, the byte (0..255) of a
\* one-byte line, and for every line of two or more bytes writes a diagnostic
\* and goes on to read another line.
C10_GetChar ==
  top = "si_getChar" =>
    LET l == LineOf(consumed)
    IN  /\ (pc = "done" /\ consumed # <<EOF>> /\ l = <<>>) => ret = ChrVal(NL)
        /\ (pc = "done" /\ Len(l) = 1) => (ret = ChrVal(l[1]) /\ ret.n \in 0..255)
        /\ pc = "done" => Len(l) <= 1
        /\ pc = "continue"
             => /\ Len(l) >= 2
                /\ stderr # <<>>
                /\ stderr[Len(stderr)] =
                     (IF Len(l) >= CHAR_INPUT_BUFFER_SIZE - 1 THEN MSG_OVERRUN ELSE MSG_SINGLE)

\* si_getChar has returned the byte 0xFF as 255, after rejecting a line
C10_Witness ==
  top = "si_getChar" /\ pc = "done" /\ ret = ChrVal(255) /\ reads >= 2

\* The characters of an allow-set, as byte values
Members(a) == {a[k] : k \in 1..Len(a)}

\* C11: si_getCharFiltered with a non-empty allow-set returns EOF or one of the
\* allow-set's characters; every one-byte line whose byte (0..255, the zero
\* byte included) is not in the allow-set gets a diagnostic and another line
\* is read.
C11_FilteredMember ==
  (top = "si_getCharFiltered" /\ allowed # NULLP /\ allowed # <<>>) =>
    LET l == LineOf(consumed)
    IN  /\ pc = "done" => (ret = ChrVal(EOF) \/ (ret.tag = "chr" /\ ret.n \in Members(allowed)))
        /\ (pc \in {"done", "continue"} /\ result = RB_OK /\ Len(l) = 1
              /\ l[1] \notin Members(allowed))
             => (pc = "continue" /\ stderr # <<>> /\ stderr[Len(stderr)] = MSG_ALLOWED)

\* C12: si_getCharFiltered with an empty allow-set reports the configuration
\* error, reads no byte of the stream, and returns EOF.
C12_EmptyAllowSet ==
  (top = "si_getCharFiltered" /\ allowed = <<>> /\ pc = "done") =>
    /\ stderr = <<MSG_NO_ALLOWED>>
    /\ reads = 0 /\ consumed = <<>>
    /\ ret = ChrVal(EOF)

\* C13: si_getBool returns true for the lines "y" and "Y", false for "n" and
\* "N"; every other line gets a diagnostic and another line is read; at
\* end-of-stream it writes a diagnostic and returns false.
C13_GetBool ==
  top = "si_getBool" =>
    LET l == LineOf(consumed)
    IN  /\ pc = "done" =>
             IF consumed = <<EOF>>
               THEN ret = BoolVal(FALSE) /\ Len(stderr) = reads
                    /\ stderr[Len(stderr)] = MSG_BOOL_EOF
               ELSE /\ l \in {<<121>>, <<89>>, <<110>>, <<78>>}
                    /\ ret = BoolVal(l \in {<<121>>, <<89>>})
                    /\ Len(stderr) = reads - 1
        /\ pc = "continue" =>
             /\ consumed # <<EOF>>
             /\ l \notin {<<121>>, <<89>>, <<110>>, <<78>>}
             /\ Len(stderr) = reads
             /\ stderr[Len(stderr)] \in {MSG_OVERRUN, MSG_SINGLE, MSG_BOOL}

\* si_getBool has returned true for the line "Y", read after a rejected line
C13_Witness ==
  /\ top = "si_getBool" /\ pc = "done" /\ ret = BoolVal(TRUE)
  /\ LineOf(consumed) = <<89>> /\ reads = 2 /\ stderr = <<MSG_BOOL>>

\* C14: for every line of n bytes within the reader's capacity (any byte
\* values, n = 0 included) si_getString returns len = n and the line's n bytes,
\* with no terminator, and si_getCString returns n + 1 bytes, the line's bytes
\* and one zero byte; an empty line gives a valid result, not the null marker.
\* (Where malloc has not failed.)
C14_Strings ==
  (top \in {"si_getString", "si_getCString"} /\ pc = "done" /\ consumed # <<EOF>>
     /\ Len(LineOf(consumed)) <= maxLen
     /\ \A k \in 1..Len(stderr) : stderr[k] # MSG_MALLOC) =>
    LET l == LineOf(consumed)
    IN  IF top = "si_getString"
          THEN ret.tag = "si_string" /\ ret.n = Len(l) /\ Unsigned(ret.bytes) = l
          ELSE ret.tag = "char*" /\ ret.n = Len(l) + 1
               /\ Unsigned(ret.bytes) = l \o <<0>>

\* What an accessor returns at end-of-stream
EosResult(f) ==
  IF f = "si_getBool" THEN BoolVal(FALSE)
  ELSE IF f = "si_readByte" THEN ChrVal(EOF)
  ELSE Sentinel(f)

\* The call is one that reads the stream: not si_readByte with no capacity,
\* not si_getCharFiltered without an allow-set
ReadingCall ==
  /\ top \in SentinelAccessors \cup {"si_getBool", "si_readByte"}
  /\ top = "si_readByte" => maxLen >= 1
  /\ top = "si_getCharFiltered" => (allowed # NULLP /\ allowed # <<>>)

\* C15: once the stream is exhausted it stays exhausted, and every call made
\* then takes the end-of-stream signal once and returns the accessor's
\* end-of-stream result (si_getBool: false, with its diagnostic), never
\* retrying.
C15_ExhaustedIdempotent ==
  /\ [][eof => (eof' /\ line' = line /\ nlines' = nlines)]_vars
  /\ []((eof /\ ReadingCall) =>
          /\ pc \in {"rb_loop", "rb_drain"} => (pc = "rb_loop" /\ consumed = <<>>)
          /\ (consumed # <<>> /\ consumed[1] = EOF) =>
               /\ consumed = <<EOF>>
               /\ pc \in {"rb_end", "rb_ret", "gb_ret", "done"}
               /\ pc \in {"rb_ret", "gb_ret", "done"} => result = EOF
               /\ pc = "done" =>
                    /\ ret = EosResult(top)
                    /\ top = "si_getBool" => stderr[Len(stderr)] = MSG_BOOL_EOF)

\* si_getBool has found the stream exhausted and returned false with its
\* diagnostic after one si_readByte call
C15_Witness ==
  /\ top = "si_getBool" /\ pc = "done" /\ eof /\ consumed = <<EOF>>
  /\ reads = 1 /\ ret = BoolVal(FALSE) /\ stderr = <<MSG_BOOL_EOF>>
  /\ nlines = 0

IntAccessors ==
  {"si_getInt", "si_getUInt", "si_getLong", "si_getULong", "si_getLongLong",
   "si_getULongLong"}

\* C16: whenever an integer accessor accepts a line of len bytes, the
\* conversion has consumed all len bytes of the buffer: the scan ended at
\* buffer[len], and no line with a byte after the literal (a zero byte
\* followed by further bytes included) is accepted.
C16_WholeBufferConverted ==
  (top \in IntAccessors /\ pc = "done" /\ result = RB_OK) =>
    /\ rmax = len
    /\ Len(CStr(buffer)) = len
    /\ IsLiteral(LineOf(consumed))

\* C17: si_getCharFiltered with '\n' in the allow-set accepts an empty line
\* and returns '\n', as si_getChar maps a zero-length line to '\n'.
C17_FilteredEmptyLine ==
  (top = "si_getCharFiltered" /\ allowed # NULLP /\ NL \in Members(allowed)
     /\ pc \in {"done", "continue"} /\ result = RB_OK /\ LineOf(consumed) = <<>>) =>
    (pc = "done" /\ ret = ChrVal(NL))

\* C18: si_readByte signals overrun only when the line has more bytes than
\* the capacity: a line of at most maxLen bytes never gives the result 1.
C18_OverrunOnlyAboveCapacity ==
  (Returned /\ result = RB_ERR) => Len(LineOf(consumed)) > maxLen

\* C19: a final line of n bytes, 1 <= n < capacity, that ends at end-of-stream
\* with no terminator is returned by si_readByte as success with count n and
\* its bytes (si_getChar returns the byte of such a one-byte line); the stream
\* is then exhausted, and the si_readByte call that follows takes nothing but
\* the end-of-stream signal and returns EOF.
C19_UnterminatedFinalLine ==
  LET l == LineOf(consumed)
      final == consumed # <<>> /\ consumed[Len(consumed)] = EOF /\ Len(consumed) >= 2
  IN  /\ (Returned /\ final /\ Len(l) < maxLen) =>
            /\ result = RB_OK /\ len = Len(l) /\ Unsigned(buffer) = l
            /\ eof /\ line = <<>>
      /\ (top = "si_getChar" /\ pc \in {"done", "continue"} /\ final /\ Len(l) = 1) =>
            (pc = "done" /\ ret = ChrVal(l[1]))
      /\ (eof /\ pc = "rb_loop") => consumed = <<>>
      /\ (eof /\ Returned /\ consumed[1] = EOF) =>
            (consumed = <<EOF>> /\ result = EOF /\ len = 0)

\* si_readByte, with capacity 2, has returned the byte of an unterminated
\* final line, after a terminated line
C19_Witness ==
  /\ Returned /\ fn = "si_readByte" /\ maxLen = 2 /\ result = RB_OK /\ len = 1
  /\ Len(consumed) = 2 /\ consumed[2] = EOF /\ nlines = 1 /\ eof

\* C20: on a finite stream every call eventually returns (or, for a null
\* allow-set, exits), and every iteration of a retry loop that does not return
\* has consumed at least one byte of the stream.
C20_Termination ==
  /\ [](pc = "continue" => (consumed # <<>> /\ consumed # <<EOF>>))
  /\ [](pc \notin {"idle", "done", "exit"} => <>(pc \in {"done", "exit"}))

\* si_getUInt has returned a value after rejecting a line
C20_Witness ==
  /\ top = "si_getUInt" /\ pc = "done" /\ reads = 2 /\ result = RB_OK
  /\ ret = IntVal("pos", <<1>>) /\ stderr = <<MSG_NEGATIVE>>

====
